---- MODULE Spec2Model ----
(***************************************************************************)
(* The appointment monitor of src/monitor.py: parse_date, the per-cycle    *)
(* state diffing of check_for_appointments, and the check/sleep            *)
(* alternation of run_monitor.                                             *)
(*                                                                         *)
(* Time is counted in hours: a timestamp is day * 24 + hour, so the        *)
(* difference of two timestamps is total_seconds() / 3600.                 *)
(*                                                                         *)
(* A scraped string is a record of the features parse_date,                *)
(* strftime and the "AM"/"PM" substring tests read:                        *)
(*   form   the sentinel phrase it contains, "unrecognized" for a string   *)
(*          neither format accepts, "date" for '%a %b %d, %Y' and          *)
(*          "datetime" for '%a %b %d, %Y, %I:%M %p';                       *)
(*   day, hour   the date and the time of day it denotes;                  *)
(*   upper  whether its AM/PM marker is in upper case (strptime accepts    *)
(*          either case, the substring tests only upper case);             *)
(*   tail   a trailing "," that parse_date strips and strftime never       *)
(*          writes.                                                        *)
(* None is <<>> and a present value x is <<x>>.  A snapshot lists each     *)
(* location at most once.                                                  *)
(***************************************************************************)
EXTENDS Integers, Sequences, FiniteSets, TLC

VARIABLES
    state,          \* run_monitor's state: location id -> stored string
    state_file,     \* contents of STATE_FILE
    current_time,   \* datetime.now() as last read by a cycle
    live_data,      \* the snapshot of the cycle that just ran
    prior_state,    \* the state that cycle was called with
    events,         \* the classifications of that cycle, in order
    notified,       \* the notifications that cycle sent, in order
    seen,           \* ids ever observed with a concrete date
    pc,             \* "check": about to run a cycle, "sleep": the cycle is
                    \* over, "exited": the process has ended
    outcome,        \* how that cycle ended: "returned", "skipped" (nothing
                    \* fetched), "raised" (an exception reached run_monitor),
                    \* "none" when no cycle has just ended
    undelivered,    \* the notifications of that cycle whose POST failed
    wandb_run,      \* the tracking session: "open", "none" or "finished"
    locations_map,       \* run_monitor's locations_map: id -> name
    locations_map_file,  \* contents of LOCATIONS_MAP_FILE
    all_locations_data,  \* the catalog get_all_locations returned
    loaded_map,          \* the map as load_locations_map returned it
    refreshed            \* what refresh_locations_map_if_needed returned,
                         \* "none" before it has been called

mapvars == <<locations_map, locations_map_file, all_locations_data,
             loaded_map, refreshed>>

vars == <<state, state_file, current_time, live_data, prior_state, events,
          notified, seen, pc, outcome, undelivered, wandb_run,
          locations_map, locations_map_file, all_locations_data,
          loaded_map, refreshed>>

\* ------------------------------------------------------------- bounds
MaxDay == 2

Days == 1..MaxDay
ApptHours == {10}
CheckHours == {5}
CheckTimes == {d * 24 + h : d \in Days, h \in CheckHours}
LocationIds == {"5", "7"}
MaxCatalog == 2
CatalogIds == {"5", "7", "9"}
ServiceCenters == {"Boston", "Worcester"}

\* ------------------------------------------------------------ strings
None == <<>>
Some(x) == <<x>>

Str(form, day, hour, upper, tail) ==
    [form |-> form, day |-> day, hour |-> hour, upper |-> upper, tail |-> tail]

NO_APPOINTMENTS == Str("No Appointments", 0, 0, FALSE, "")
NO_DATE_FOUND == Str("No Date Found", 0, 0, FALSE, "")
LOCATION_NOT_AVAILABLE == Str("Location Not Available", 0, 0, FALSE, "")
UNRECOGNIZED == Str("unrecognized", 0, 0, FALSE, "")

DateOnly(day, tail) == Str("date", day, 0, FALSE, tail)
DateTime(day, hour, upper) == Str("datetime", day, hour, upper, "")

ConcreteStrings ==
    {DateOnly(d, t) : d \in Days, t \in {"", ","}}
    \cup {DateTime(d, h, u) : d \in Days, h \in ApptHours, u \in BOOLEAN}

RawDateStrings ==
    {NO_APPOINTMENTS, NO_DATE_FOUND, LOCATION_NOT_AVAILABLE, UNRECOGNIZED}
    \cup ConcreteStrings

\* ---------------------------------------------------------- parse_date
\* seeded fault: a string that matches neither format parses to a default
\* date instead of None
parse_date_defaults(date_str) ==
    IF date_str.form \in {"No Appointments", "No Date Found",
                          "Location Not Available"}
    THEN None
    ELSE IF date_str.form = "datetime"
    THEN Some(date_str.day * 24 + date_str.hour)
    ELSE IF date_str.form = "date"
    THEN Some(date_str.day * 24)
    ELSE Some(24)

parse_date(date_str) ==
    IF date_str.form \in {"No Appointments", "No Date Found",
                          "Location Not Available"}
    THEN None
    ELSE IF date_str.form = "datetime"
    THEN Some(date_str.day * 24 + date_str.hour)
    ELSE IF date_str.form = "date"
    THEN Some(date_str.day * 24)
    ELSE None

\* "AM" in new_date_str or "PM" in new_date_str
has_am_pm(date_str) == date_str.form = "datetime" /\ date_str.upper

\* new_date.strftime('%a %b %d, %Y, %I:%M %p')
strftime_datetime(date) == DateTime(date \div 24, date % 24, TRUE)

\* new_date.strftime('%a %b %d, %Y')
strftime_date(date) == DateOnly(date \div 24, "")

\* the rendered notification text
message_for(location_id, new_date_str, new_date) ==
    IF has_am_pm(new_date_str)
    THEN [location_id |-> location_id, text |-> "New appointment at",
          with_time |-> TRUE, day |-> new_date \div 24, hour |-> new_date % 24]
    ELSE [location_id |-> location_id, text |-> "New earliest date at",
          with_time |-> FALSE, day |-> new_date \div 24, hour |-> 0]

\* ------------------------------------------------------------- dicts
dict_get(d, k) == IF k \in DOMAIN d THEN Some(d[k]) ELSE None

dict_set(d, k, v) ==
    [x \in (DOMAIN d) \cup {k} |-> IF x = k THEN v ELSE d[x]]

dict_del(d, k) == [x \in (DOMAIN d) \ {k} |-> d[x]]

EmptyDict == [x \in {} |-> NO_APPOINTMENTS]

\* ------------------------------------------- check_for_appointments
Event(event_type, location_id, previous_date, new_date, time_diff_hours) ==
    [event_type |-> event_type, location_id |-> location_id,
     previous_date |-> previous_date, new_date |-> new_date,
     time_diff_hours |-> time_diff_hours]

\* seeded fault: the unavailable sentinel is written to the state
on_absent_overwrites(st, location_id, new_date_str) ==
    IF new_date_str.form = "Location Not Available"
    THEN dict_set(st, location_id, new_date_str)
    ELSE st

\* seeded fault: a "no appointment" reading is recorded in the state
on_absent_records(st, location_id, new_date_str) ==
    IF new_date_str.form \in {"No Appointments", "No Date Found"}
    THEN dict_set(st, location_id, new_date_str)
    ELSE st

\* seeded fault: a location without a date is dropped from the state
on_absent_deletes(st, location_id, new_date_str) ==
    dict_del(st, location_id)

\* seeded fault: an entry is dropped when the page shows a string that is
\* no date and no sentinel
on_absent_forgets(st, location_id, new_date_str) ==
    IF new_date_str.form = "unrecognized"
    THEN dict_del(st, location_id)
    ELSE st

\* new_date is None: both branches only log, the state is not touched
on_absent(st, location_id, new_date_str) == st

\* seeded fault: the comparison with the check time is reversed
has_lapsed_reversed(last_known_date, now) ==
    last_known_date # None /\ last_known_date[1] > now

\* last_known_date and last_known_date < current_time
has_lapsed(last_known_date, now) ==
    last_known_date # None /\ last_known_date[1] < now

\* seeded fault: the comparison of the two dates is reversed
is_resurfaced_reversed(last_known_date, new_date) ==
    last_known_date # None /\ new_date[1] < last_known_date[1]

\* seeded fault: an equal date counts as new availability
is_resurfaced_or_same(last_known_date, new_date) ==
    last_known_date # None /\ new_date[1] >= last_known_date[1]

\* last_known_date and new_date and new_date > last_known_date
is_resurfaced(last_known_date, new_date) ==
    last_known_date # None /\ new_date[1] > last_known_date[1]

\* not last_known_date or new_date < last_known_date
is_first_or_earlier(last_known_date, new_date) ==
    last_known_date = None \/ new_date[1] < last_known_date[1]

\* time_diff = new_date - last_known_date, in hours
later_time_diff(last_known_date, new_date) ==
    Some(new_date[1] - last_known_date[1])

\* seeded fault: the difference is taken the other way round
earlier_time_diff_swapped(last_known_date, new_date) ==
    IF last_known_date # None
    THEN Some(new_date[1] - last_known_date[1])
    ELSE None

\* time_diff = last_known_date - new_date when there is a last known date
earlier_time_diff(last_known_date, new_date) ==
    IF last_known_date # None
    THEN Some(last_known_date[1] - new_date[1])
    ELSE None

\* seeded fault: the scraped string is stored as it is
stores_raw(new_date_str, new_date) == new_date_str

\* the value the first/earlier branch stores: new_date re-rendered
canonical_value(new_date_str, new_date) ==
    IF has_am_pm(new_date_str)
    THEN strftime_datetime(new_date[1])
    ELSE strftime_date(new_date[1])

\* one iteration of the loop over live_data; acc is what the loop has
\* built so far: the state dict, the events and the notifications
check_location(acc, location_data, now) ==
    LET location_id == location_data.id
        new_date_str == location_data.earliest_date
        new_date == parse_date(new_date_str)
        last_known_date_str == dict_get(acc.state, location_id)
        last_known_date == IF last_known_date_str # None
                           THEN parse_date(last_known_date_str[1])
                           ELSE None
        message == message_for(location_id, new_date_str, new_date[1])
    IN IF new_date = None
       THEN [acc EXCEPT !.state = on_absent(acc.state, location_id, new_date_str)]
       ELSE IF has_lapsed(last_known_date, now)
       THEN [state |-> dict_set(acc.state, location_id, new_date_str),
             events |-> Append(acc.events,
                 Event("expired_replaced", location_id, last_known_date_str,
                       new_date_str, later_time_diff(last_known_date, new_date))),
             notified |-> Append(acc.notified, message)]
       ELSE IF is_resurfaced(last_known_date, new_date)
       THEN [state |-> dict_set(acc.state, location_id, new_date_str),
             events |-> Append(acc.events,
                 Event("new_availability", location_id, last_known_date_str,
                       new_date_str, later_time_diff(last_known_date, new_date))),
             notified |-> Append(acc.notified, message)]
       ELSE IF is_first_or_earlier(last_known_date, new_date)
       THEN [state |-> dict_set(acc.state, location_id,
                                canonical_value(new_date_str, new_date)),
             events |-> Append(acc.events,
                 Event(IF last_known_date = None THEN "first_appointment"
                                                 ELSE "earlier_appointment",
                       location_id, last_known_date_str, new_date_str,
                       earlier_time_diff(last_known_date, new_date))),
             notified |-> Append(acc.notified, message)]
       ELSE [acc EXCEPT !.events = Append(acc.events,
                 Event("no_change", location_id, last_known_date_str,
                       new_date_str, None))]

\* seeded fault: the loop ends at the first location it notifies (break
\* where the code has continue)
RECURSIVE classify_all_breaks(_, _, _)
classify_all_breaks(acc, data, now) ==
    IF data = <<>>
    THEN acc
    ELSE LET r == check_location(acc, Head(data), now)
         IN IF r.notified # acc.notified
            THEN r
            ELSE classify_all_breaks(r, Tail(data), now)

\* for location_data in live_data: ...
RECURSIVE classify_all(_, _, _)
classify_all(acc, data, now) ==
    IF data = <<>>
    THEN acc
    ELSE classify_all(check_location(acc, Head(data), now), Tail(data), now)

\* one iteration of the "State was empty" loop
populate_location(acc, location_data) ==
    LET new_date_str == location_data.earliest_date
    IN IF parse_date(new_date_str) # None
       THEN [acc EXCEPT
               !.state = dict_set(acc.state, location_data.id, new_date_str),
               !.events = Append(acc.events,
                   Event("initial_population", location_data.id, None,
                         new_date_str, None))]
       ELSE acc

RECURSIVE populate_all(_, _)
populate_all(acc, data) ==
    IF data = <<>>
    THEN acc
    ELSE populate_all(populate_location(acc, Head(data)), Tail(data))

\* if not state: ... , evaluated on the dict the first loop has written to
populate_if_empty(acc, data) ==
    IF DOMAIN acc.state = {}
    THEN populate_all(acc, data)
    ELSE acc

\* what a cycle that fetched `data` leaves behind, called with `st` at `now`
check_for_appointments(data, st, now) ==
    populate_if_empty(
        classify_all([state |-> st, events |-> <<>>, notified |-> <<>>],
                     data, now),
        data)

\* ------------------------------------- refresh_locations_map_if_needed
Location(id, service_center) == [id |-> id, service_center |-> service_center]

\* {loc['id']: loc['service_center'] for loc in catalog} laid over `map`:
\* the last entry of an id gives its name
overlay(map, catalog) ==
    [id \in (DOMAIN map) \cup {catalog[i].id : i \in DOMAIN catalog} |->
        IF \E i \in DOMAIN catalog : catalog[i].id = id
        THEN catalog[CHOOSE i \in DOMAIN catalog :
                        /\ catalog[i].id = id
                        /\ \A j \in DOMAIN catalog :
                               catalog[j].id = id => j <= i].service_center
        ELSE map[id]]

\* seeded fault: the name of the catalog replaces the name already mapped
add_missing_overwrites(map, catalog) == overlay(map, catalog)

\* for loc in all_locations_data: if loc['id'] not in locations_map: ...
RECURSIVE add_missing(_, _)
add_missing(map, catalog) ==
    IF catalog = <<>>
    THEN map
    ELSE LET loc == Head(catalog)
         IN add_missing(IF loc.id \notin DOMAIN map
                        THEN dict_set(map, loc.id, loc.service_center)
                        ELSE map,
                        Tail(catalog))

\* the map, the map file and the returned value after the call
refresh_locations_map_if_needed(map, file, catalog) ==
    IF DOMAIN map = {}
    THEN [locations_map |-> map, file |-> file, returned |-> FALSE]
    ELSE IF {catalog[i].id : i \in DOMAIN catalog} \ DOMAIN map # {}
    THEN [locations_map |-> add_missing(map, catalog),
          file |-> add_missing(map, catalog),
          returned |-> TRUE]
    ELSE [locations_map |-> map, file |-> file, returned |-> FALSE]

\* ------------------------------------------------------------ inputs
\* what load_locations_map can return: any map, the empty one when there is
\* no map file
Maps == UNION {[ids -> ServiceCenters] : ids \in SUBSET CatalogIds}

CatalogEntries ==
    {Location(id, name) : id \in CatalogIds, name \in ServiceCenters}

\* what get_all_locations can return and run_monitor goes on with: a
\* non-empty list, an id possibly listed twice
Catalogs == UNION {[1..n -> CatalogEntries] : n \in 1..MaxCatalog}

\* the catalog of the monitored locations
MonitoredCatalog == <<Location("5", "Boston"), Location("7", "Worcester")>>

LocationData(id, earliest_date) == [id |-> id, earliest_date |-> earliest_date]

Entries == {LocationData(id, s) : id \in LocationIds, s \in RawDateStrings}

\* what get_rmv_data can return: at most one entry per monitored location,
\* in any order; the empty list is a failed fetch
Snapshots ==
    UNION {{data \in [1..n -> Entries] :
               \A i, j \in 1..n : data[i].id = data[j].id => i = j}
           : n \in 0..Cardinality(LocationIds)}

concrete_ids(data) ==
    {data[i].id : i \in {j \in DOMAIN data : parse_date(data[j].earliest_date) # None}}

\* ------------------------------------------------------------ faults
\* the loop when appointment_text_links() raises (booking.md exists but
\* cannot be read): the first location that builds a message has its entry
\* written, and its event logged when the branch logs before it reads the
\* file, and the exception leaves the function before anything is sent
RECURSIVE classify_unreadable(_, _, _)
classify_unreadable(acc, data, now) ==
    IF data = <<>>
    THEN [state |-> acc.state, events |-> acc.events,
          notified |-> acc.notified, raised |-> FALSE]
    ELSE LET r == check_location(acc, Head(data), now)
         IN IF r.notified = acc.notified
            THEN classify_unreadable(r, Tail(data), now)
            ELSE [state |-> r.state,
                  events |-> IF r.events[Len(r.events)].event_type \in
                                    {"expired_replaced", "new_availability"}
                             THEN r.events
                             ELSE acc.events,
                  notified |-> acc.notified,
                  raised |-> TRUE]

\* the body of check_for_appointments after a non-empty fetch
cycle_result(data, st, now, links_ok) ==
    LET start == [state |-> st, events |-> <<>>, notified |-> <<>>]
        unreadable == classify_unreadable(start, data, now)
        done == check_for_appointments(data, st, now)
    IN IF ~links_ok /\ unreadable.raised
       THEN unreadable
       ELSE [state |-> done.state, events |-> done.events,
             notified |-> done.notified, raised |-> FALSE]

\* seeded fault: the exception of requests.post is not caught
send_ntfy_notification_propagates(message, post_ok) ==
    [raised |-> ~post_ok, delivered |-> post_ok]

\* send_ntfy_notification: an exception of requests.post is logged, not raised
send_ntfy_notification(message, post_ok) ==
    [raised |-> FALSE, delivered |-> post_ok]

\* seeded fault: the early return falls through to save_json
file_saved_after_failed_fetch(st, file) == st

\* if not live_data: return state -- the state file is not written
file_after_failed_fetch(st, file) == file

\* seeded fault: run_monitor has no except clause and the exception ends it
after_exception_propagates == "exited"

\* except Exception in run_monitor: log, then go on to the sleep
after_exception == "sleep"

\* seeded fault: the handler exits without finishing the run
finish_wandb_skipped(run) == run

\* signal_handler and the finally block of run_monitor: wandb.finish() when
\* a run is open
finish_wandb(run) == IF run = "open" THEN "finished" ELSE run

notified_ids(messages) == {messages[i].location_id : i \in DOMAIN messages}

\* ----------------------------------------------------------- actions
\* state = load_json(STATE_FILE) with no state file yet; init_wandb() has
\* opened a run or failed to
Init ==
    /\ state = EmptyDict
    /\ state_file = EmptyDict
    /\ current_time = 0
    /\ live_data = <<>>
    /\ prior_state = EmptyDict
    /\ events = <<>>
    /\ notified = <<>>
    /\ seen = {}
    /\ pc = "check"
    /\ outcome = "none"
    /\ undelivered = <<>>
    /\ wandb_run \in {"open", "none"}
    /\ all_locations_data = MonitoredCatalog
    /\ loaded_map = EmptyDict
    /\ locations_map = overlay(EmptyDict, MonitoredCatalog)
    /\ locations_map_file = overlay(EmptyDict, MonitoredCatalog)
    /\ refreshed = "none"

\* run_monitor after load_locations_map(): the state is not loaded yet and
\* no tracking run is open
MapInit ==
    /\ state = EmptyDict
    /\ state_file = EmptyDict
    /\ current_time = 0
    /\ live_data = <<>>
    /\ prior_state = EmptyDict
    /\ events = <<>>
    /\ notified = <<>>
    /\ seen = {}
    /\ pc = "startup"
    /\ outcome = "none"
    /\ undelivered = <<>>
    /\ wandb_run = "none"
    /\ all_locations_data \in Catalogs
    /\ loaded_map \in Maps
    /\ locations_map = loaded_map
    /\ locations_map_file = loaded_map
    /\ refreshed = "none"

\* refresh_locations_map_if_needed(locations_map, all_locations_data)
RefreshLocationsMap ==
    /\ pc = "startup"
    /\ LET r == refresh_locations_map_if_needed(locations_map,
                     locations_map_file, all_locations_data)
       IN /\ locations_map' = r.locations_map
          /\ locations_map_file' = r.file
          /\ refreshed' = r.returned
    /\ pc' = "mapped"
    /\ UNCHANGED <<state, state_file, current_time, live_data, prior_state,
                   events, notified, seen, outcome, undelivered, wandb_run,
                   all_locations_data, loaded_map>>

\* state = check_for_appointments(...): one whole cycle, on the snapshot
\* `data` at time `now`, with booking.md readable or not and the POST
\* failing for the locations in `failing`
CheckForAppointments(data, now, links_ok, failing) ==
    /\ pc = "check"
    /\ now >= current_time
    /\ live_data' = data
    /\ prior_state' = state
    /\ UNCHANGED wandb_run
    /\ UNCHANGED mapvars
    /\ IF data = <<>>
       THEN /\ failing = {}
            /\ pc' = "sleep"
            /\ outcome' = "skipped"
            /\ events' = <<>>
            /\ notified' = <<>>
            /\ undelivered' = <<>>
            /\ state_file' = file_after_failed_fetch(state, state_file)
            /\ UNCHANGED <<state, current_time, seen>>
       ELSE LET result == cycle_result(data, state, now, links_ok)
                sends == [i \in DOMAIN result.notified |->
                             send_ntfy_notification(result.notified[i],
                                 result.notified[i].location_id \notin failing)]
                raised == result.raised \/ \E i \in DOMAIN sends : sends[i].raised
            IN /\ failing \subseteq notified_ids(result.notified)
               /\ state' = result.state
               /\ events' = result.events
               /\ notified' = result.notified
               /\ undelivered' = SelectSeq(result.notified,
                                     LAMBDA m : m.location_id \in failing)
               /\ current_time' = now
               /\ seen' = seen \cup concrete_ids(data)
               /\ IF raised
                  THEN /\ pc' = after_exception
                       /\ outcome' = "raised"
                       /\ UNCHANGED state_file
                  ELSE /\ pc' = "sleep"
                       /\ outcome' = "returned"
                       /\ state_file' = result.state

\* a cycle that an exception ends before save_json has written the file:
\* get_rmv_data raises (nothing processed), an entry of the snapshot lacks a
\* key or its earliest_date is not a string, or save_json cannot open the
\* file; `data` is the part of the snapshot the loop has gone through
CheckRaises(data, now) ==
    /\ pc = "check"
    /\ now >= current_time
    /\ LET result == classify_all([state |-> state, events |-> <<>>,
                                   notified |-> <<>>], data, now)
       IN /\ state' = result.state
          /\ events' = result.events
          /\ notified' = result.notified
    /\ live_data' = data
    /\ prior_state' = state
    /\ undelivered' = <<>>
    /\ current_time' = IF data = <<>> THEN current_time ELSE now
    /\ seen' = seen \cup concrete_ids(data)
    /\ pc' = after_exception
    /\ outcome' = "raised"
    /\ UNCHANGED <<state_file, wandb_run>>
    /\ UNCHANGED mapvars

\* the sleep between two cycles; the cycle's locals are gone
Sleep ==
    /\ pc = "sleep"
    /\ pc' = "check"
    /\ live_data' = <<>>
    /\ prior_state' = state
    /\ events' = <<>>
    /\ notified' = <<>>
    /\ outcome' = "none"
    /\ undelivered' = <<>>
    /\ UNCHANGED <<state, state_file, current_time, seen, wandb_run>>
    /\ UNCHANGED mapvars

\* SIGINT or SIGTERM between two cycles or during the sleep: signal_handler
\* finishes the run and sys.exit(0) ends the process
Signal ==
    /\ pc \in {"check", "sleep"}
    /\ pc' = "exited"
    /\ wandb_run' = finish_wandb(wandb_run)
    /\ live_data' = <<>>
    /\ prior_state' = state
    /\ events' = <<>>
    /\ notified' = <<>>
    /\ outcome' = "none"
    /\ undelivered' = <<>>
    /\ UNCHANGED <<state, state_file, current_time, seen>>
    /\ UNCHANGED mapvars

\* SIGINT or SIGTERM while a cycle runs: SystemExit is no Exception, so it
\* passes every handler of the cycle and of run_monitor; `data` is the part
\* of the snapshot the loop has gone through, and nothing is saved
SignalDuringCheck(data, now) ==
    /\ pc = "check"
    /\ now >= current_time
    /\ data # <<>>
    /\ LET result == classify_all([state |-> state, events |-> <<>>,
                                   notified |-> <<>>], data, now)
       IN /\ state' = result.state
          /\ events' = result.events
          /\ notified' = result.notified
    /\ live_data' = data
    /\ prior_state' = state
    /\ undelivered' = <<>>
    /\ current_time' = now
    /\ seen' = seen \cup concrete_ids(data)
    /\ pc' = "exited"
    /\ outcome' = "none"
    /\ wandb_run' = finish_wandb(wandb_run)
    /\ UNCHANGED state_file
    /\ UNCHANGED mapvars

\* the cycles that return: nothing raises and every POST succeeds
Cycle ==
    \E data \in Snapshots, now \in CheckTimes :
        CheckForAppointments(data, now, TRUE, {})

\* the strings of the snapshots on which faults and signals are explored
FaultStrings ==
    {NO_APPOINTMENTS, DateOnly(1, ""), DateTime(1, 10, TRUE), DateTime(2, 10, TRUE)}

FaultSnapshots ==
    {data \in Snapshots :
        \A i \in DOMAIN data : data[i].earliest_date \in FaultStrings}

FaultyCycle ==
    \E data \in FaultSnapshots, now \in CheckTimes, links_ok \in BOOLEAN,
       failing \in SUBSET LocationIds :
        CheckForAppointments(data, now, links_ok, failing)

CycleRaises ==
    \E data \in FaultSnapshots, now \in CheckTimes : CheckRaises(data, now)

Interrupt ==
    \E data \in FaultSnapshots, now \in CheckTimes : SignalDuringCheck(data, now)

Next == Cycle \/ Sleep

\* init_wandb() has opened a run
InitTracked == Init /\ wandb_run = "open"

\* every cycle returns and the tracking run is open
Spec == InitTracked /\ [][Next]_vars

NextFaults == FaultyCycle \/ CycleRaises \/ Sleep \/ Signal \/ Interrupt

\* cycles that may raise, lose notifications or be interrupted by a signal
FaultSpec == Init /\ [][NextFaults]_vars

\* the map refresh of the start-up, on every map and catalog
MapSpec == MapInit /\ [][RefreshLocationsMap]_vars

\* the driver loop seen with one location on the page
LoopStrings == {NO_APPOINTMENTS, DateTime(1, 10, TRUE), DateTime(2, 10, TRUE)}

LoopSnapshots ==
    {<<>>} \cup {<<LocationData("5", s)>> : s \in LoopStrings}

LoopCycle ==
    \E data \in LoopSnapshots, now \in CheckTimes, links_ok \in BOOLEAN,
       failing \in SUBSET LocationIds :
        CheckForAppointments(data, now, links_ok, failing)

LoopCycleRaises ==
    \E data \in LoopSnapshots, now \in CheckTimes : CheckRaises(data, now)

LoopInterrupt ==
    \E data \in LoopSnapshots, now \in CheckTimes :
        SignalDuringCheck(data, now)

NextLoop == LoopCycle \/ LoopCycleRaises \/ Sleep \/ Signal \/ LoopInterrupt

\* while True in run_monitor: a cycle that can start does start and ends,
\* by returning or by raising, and time.sleep returns
LoopSpec ==
    /\ Init
    /\ [][NextLoop]_vars
    /\ WF_vars(LoopCycle \/ LoopCycleRaises)
    /\ WF_vars(Sleep)

\* ------------------------------------------------- reading a cycle
\* a cycle has run on a non-empty snapshot and returned
CycleDone == pc = "sleep" /\ outcome = "returned" /\ live_data # <<>>

events_for(id) == SelectSeq(events, LAMBDA e : e.location_id = id)

notified_for(id) == SelectSeq(notified, LAMBDA m : m.location_id = id)

\* the parsed date of the entry the cycle was called with, None without one
prior_date(id) ==
    IF id \in DOMAIN prior_state THEN parse_date(prior_state[id]) ELSE None

\* a string strftime could have written
is_canonical(s) == s.tail = "" /\ (s.form = "datetime" => s.upper)

\* v is the date of raw re-rendered: no trailing comma, the time of day kept
\* exactly when raw carries an upper-case AM/PM marker
is_rendering_of(v, raw) ==
    /\ is_canonical(v)
    /\ v.day = raw.day
    /\ IF raw.form = "datetime" /\ raw.upper
       THEN v.form = "datetime" /\ v.hour = raw.hour
       ELSE v.form = "date"

\* ---------------------------------------------------------------- C1
\* C1 (as claimed): after any cycle, a second cycle on the identical
\* snapshot, called with the state the first returned, sends nothing,
\* classifies nothing but no_change and returns the state it was given.
C1_Idempotence ==
    CycleDone =>
        LET again == check_for_appointments(live_data, state, current_time)
        IN /\ again.state = state
           /\ again.notified = <<>>
           /\ \A i \in DOMAIN again.events :
                  again.events[i].event_type = "no_change"

\* ---------------------------------------------------------------- C2
\* C2 (as claimed): a cycle called with an empty state emits
\* initial_population, and nothing else, for every location with a concrete
\* date, and stores that location's current value.
C2_BootstrapInitialPopulation ==
    (CycleDone /\ prior_state = EmptyDict) =>
        \A i \in DOMAIN live_data :
            LET id == live_data[i].id
                cur == live_data[i].earliest_date
            IN parse_date(cur) # None =>
                   /\ events_for(id) =
                          <<Event("initial_population", id, None, cur, None)>>
                   /\ dict_get(state, id) = Some(cur)

\* ---------------------------------------------------------------- C3
\* C3: a location whose current value is the "Location Not Available"
\* sentinel keeps its state entry exactly as the cycle found it (absent stays
\* absent), and the cycle emits no event and sends no notification for it.
C3_UnavailablePreserved ==
    CycleDone =>
        \A i \in DOMAIN live_data :
            LET id == live_data[i].id
            IN live_data[i].earliest_date.form = "Location Not Available" =>
                   /\ dict_get(state, id) = dict_get(prior_state, id)
                   /\ events_for(id) = <<>>
                   /\ notified_for(id) = <<>>

\* an unavailable location whose stored date has lapsed, in a cycle that
\* wrote another location's entry
C3_Witness ==
    /\ CycleDone
    /\ state # prior_state
    /\ \E i \in DOMAIN live_data :
           /\ live_data[i].earliest_date = LOCATION_NOT_AVAILABLE
           /\ prior_date(live_data[i].id) # None
           /\ prior_date(live_data[i].id)[1] < current_time

\* ---------------------------------------------------------------- C4
\* C4: a location whose stored date is strictly before the check time and
\* whose current value is a concrete date is classified expired_replaced,
\* whatever the order of the two dates: its entry becomes the current value,
\* one notification is sent, and time_diff_hours is current - prior, signed.
C4_LapsedPrecedence ==
    CycleDone =>
        \A i \in DOMAIN live_data :
            LET id == live_data[i].id
                cur == live_data[i].earliest_date
                c == parse_date(cur)
                p == prior_date(id)
            IN (p # None /\ p[1] < current_time /\ c # None) =>
                   /\ events_for(id) =
                          <<Event("expired_replaced", id, Some(prior_state[id]),
                                  cur, Some(c[1] - p[1]))>>
                   /\ dict_get(state, id) = Some(cur)
                   /\ Len(notified_for(id)) = 1

\* a lapsed entry replaced by a date earlier than it (a negative difference)
C4_Witness ==
    /\ CycleDone
    /\ \E i \in DOMAIN live_data :
           LET c == parse_date(live_data[i].earliest_date)
               p == prior_date(live_data[i].id)
           IN /\ p # None /\ c # None
              /\ p[1] < current_time
              /\ c[1] < p[1]
              /\ events_for(live_data[i].id)[1].time_diff_hours = Some(c[1] - p[1])

\* ---------------------------------------------------------------- C5
\* C5 (as claimed): a location with no state entry and a concrete current
\* date gets a first_appointment or initial_population event and its new
\* entry equals the current value.
C5_FirstObservationStoresCurrent ==
    CycleDone =>
        \A i \in DOMAIN live_data :
            LET id == live_data[i].id
                cur == live_data[i].earliest_date
            IN (id \notin DOMAIN prior_state /\ parse_date(cur) # None) =>
                   /\ Len(events_for(id)) = 1
                   /\ events_for(id)[1].event_type \in
                          {"first_appointment", "initial_population"}
                   /\ dict_get(state, id) = Some(cur)

\* C5 (amended): a location with no state entry and a concrete current date
\* gets a first_appointment or initial_population event, and its new entry is
\* the current value's date re-rendered in canonical form (no trailing comma,
\* time of day kept exactly when the raw string has an upper-case AM/PM
\* marker); it equals the current value when that is already canonical.
C5_FirstObservation ==
    CycleDone =>
        \A i \in DOMAIN live_data :
            LET id == live_data[i].id
                cur == live_data[i].earliest_date
            IN (id \notin DOMAIN prior_state /\ parse_date(cur) # None) =>
                   /\ Len(events_for(id)) = 1
                   /\ events_for(id)[1].event_type \in
                          {"first_appointment", "initial_population"}
                   /\ id \in DOMAIN state
                   /\ is_rendering_of(state[id], cur)
                   /\ (is_canonical(cur) => state[id] = cur)

\* a first observation of a string that is not in canonical form
C5_Witness ==
    /\ CycleDone
    /\ \E i \in DOMAIN live_data :
           /\ live_data[i].id \notin DOMAIN prior_state
           /\ parse_date(live_data[i].earliest_date) # None
           /\ ~is_canonical(live_data[i].earliest_date)
           /\ live_data[i].id \in DOMAIN state

\* ---------------------------------------------------------------- C6
\* C6 (as claimed): with a stored date D1 that has not lapsed and a concrete
\* current date D2 < D1, the event is earlier_appointment with
\* time_diff_hours = D1 - D2 > 0, one notification is sent and the entry is
\* overwritten with the current value.
C6_EarlierStoresCurrent ==
    CycleDone =>
        \A i \in DOMAIN live_data :
            LET id == live_data[i].id
                cur == live_data[i].earliest_date
                c == parse_date(cur)
                p == prior_date(id)
            IN (p # None /\ ~(p[1] < current_time) /\ c # None /\ c[1] < p[1]) =>
                   /\ events_for(id) =
                          <<Event("earlier_appointment", id, Some(prior_state[id]),
                                  cur, Some(p[1] - c[1]))>>
                   /\ p[1] - c[1] > 0
                   /\ Len(notified_for(id)) = 1
                   /\ dict_get(state, id) = Some(cur)

\* C6 (amended): as claimed, except that the entry is overwritten with the
\* current value's date re-rendered in canonical form (no trailing comma,
\* time of day kept exactly when the raw string has an upper-case AM/PM
\* marker), which is the current value when that is already canonical.
C6_EarlierAppointment ==
    CycleDone =>
        \A i \in DOMAIN live_data :
            LET id == live_data[i].id
                cur == live_data[i].earliest_date
                c == parse_date(cur)
                p == prior_date(id)
            IN (p # None /\ ~(p[1] < current_time) /\ c # None /\ c[1] < p[1]) =>
                   /\ events_for(id) =
                          <<Event("earlier_appointment", id, Some(prior_state[id]),
                                  cur, Some(p[1] - c[1]))>>
                   /\ p[1] - c[1] > 0
                   /\ Len(notified_for(id)) = 1
                   /\ id \in DOMAIN state
                   /\ is_rendering_of(state[id], cur)
                   /\ (is_canonical(cur) => state[id] = cur)

\* an earlier date found in a string that is not in canonical form
C6_Witness ==
    /\ CycleDone
    /\ \E i \in DOMAIN live_data :
           LET c == parse_date(live_data[i].earliest_date)
               p == prior_date(live_data[i].id)
           IN /\ p # None /\ c # None
              /\ ~(p[1] < current_time)
              /\ c[1] < p[1]
              /\ ~is_canonical(live_data[i].earliest_date)
              /\ events_for(live_data[i].id)[1].event_type = "earlier_appointment"

\* ---------------------------------------------------------------- C7
\* C7: with a stored date that has not lapsed and a concrete current date
\* strictly later than it, the event is new_availability with
\* time_diff_hours = current - prior > 0, the entry is overwritten with the
\* current value and one notification is sent.
C7_ResurfacedLater ==
    CycleDone =>
        \A i \in DOMAIN live_data :
            LET id == live_data[i].id
                cur == live_data[i].earliest_date
                c == parse_date(cur)
                p == prior_date(id)
            IN (p # None /\ ~(p[1] < current_time) /\ c # None /\ c[1] > p[1]) =>
                   /\ events_for(id) =
                          <<Event("new_availability", id, Some(prior_state[id]),
                                  cur, Some(c[1] - p[1]))>>
                   /\ c[1] - p[1] > 0
                   /\ dict_get(state, id) = Some(cur)
                   /\ Len(notified_for(id)) = 1

\* a later date in a string that is not in canonical form, stored as it is
C7_Witness ==
    /\ CycleDone
    /\ \E i \in DOMAIN live_data :
           LET c == parse_date(live_data[i].earliest_date)
               p == prior_date(live_data[i].id)
           IN /\ p # None /\ c # None
              /\ ~(p[1] < current_time)
              /\ c[1] > p[1]
              /\ ~is_canonical(live_data[i].earliest_date)
              /\ dict_get(state, live_data[i].id) = Some(live_data[i].earliest_date)

\* ---------------------------------------------------------------- C8
\* C8: with a stored date that has not lapsed and a concrete current date
\* equal to it, the location is classified no_change: its entry is not
\* written and no notification is sent.
C8_NoChange ==
    CycleDone =>
        \A i \in DOMAIN live_data :
            LET id == live_data[i].id
                cur == live_data[i].earliest_date
                c == parse_date(cur)
                p == prior_date(id)
            IN (p # None /\ ~(p[1] < current_time) /\ c # None /\ c[1] = p[1]) =>
                   /\ events_for(id) =
                          <<Event("no_change", id, Some(prior_state[id]), cur, None)>>
                   /\ dict_get(state, id) = dict_get(prior_state, id)
                   /\ notified_for(id) = <<>>

\* the same date in a different string: the stored string stays
C8_Witness ==
    /\ CycleDone
    /\ \E i \in DOMAIN live_data :
           LET id == live_data[i].id
               c == parse_date(live_data[i].earliest_date)
               p == prior_date(id)
           IN /\ p # None /\ c # None
              /\ ~(p[1] < current_time)
              /\ c[1] = p[1]
              /\ live_data[i].earliest_date # prior_state[id]
              /\ state[id] = prior_state[id]

\* ---------------------------------------------------------------- C9
\* C9: a location whose current value is a "no appointment found" sentinel
\* and that has no state entry gets no entry, no event and no notification.
C9_NoAppointmentNoPrior ==
    CycleDone =>
        \A i \in DOMAIN live_data :
            LET id == live_data[i].id
            IN (/\ live_data[i].earliest_date \in {NO_APPOINTMENTS, NO_DATE_FOUND}
                /\ id \notin DOMAIN prior_state) =>
                   /\ id \notin DOMAIN state
                   /\ events_for(id) = <<>>
                   /\ notified_for(id) = <<>>

\* a location without appointments and without an entry, in a cycle that
\* created the entry of another location
C9_Witness ==
    /\ CycleDone
    /\ state # prior_state
    /\ \E i \in DOMAIN live_data :
           /\ live_data[i].earliest_date \in {NO_APPOINTMENTS, NO_DATE_FOUND}
           /\ live_data[i].id \notin DOMAIN prior_state
           /\ live_data[i].id \notin DOMAIN state

\* --------------------------------------------------------------- C10
\* C10: starting from an empty store, every key of the state is a location
\* id that some snapshot so far showed with a concrete date, every stored
\* value parses to a concrete date, and a cycle never removes a key.
C10_KeyInvariant ==
    /\ DOMAIN state \subseteq seen
    /\ \A id \in DOMAIN state : parse_date(state[id]) # None
    /\ DOMAIN prior_state \subseteq DOMAIN state

\* a cycle that overwrote one entry and kept the entry of a location that
\* this snapshot shows without a date
C10_Witness ==
    /\ CycleDone
    /\ \E i, j \in DOMAIN live_data :
           /\ parse_date(live_data[i].earliest_date) = None
           /\ live_data[i].id \in DOMAIN state
           /\ live_data[j].id \in DOMAIN prior_state
           /\ state[live_data[j].id] # prior_state[live_data[j].id]

\* --------------------------------------------------------------- C11
\* C11: a cycle whose fetch returns nothing returns the state it was given,
\* classifies no location, sends no notification and leaves the state file
\* as it is.
C11_FailedFetchSkips ==
    [][(pc = "check" /\ outcome' = "skipped") =>
           /\ state' = state
           /\ state_file' = state_file
           /\ events' = <<>>
           /\ notified' = <<>>
           /\ undelivered' = <<>>]_vars

\* a failed fetch while the state in memory is ahead of the state file
C11_Witness ==
    /\ pc = "sleep"
    /\ outcome = "skipped"
    /\ state # state_file
    /\ state = prior_state

\* --------------------------------------------------------------- C12
\* C12: an exception raised during a cycle, in the fetch or in the
\* classification, leaves the process in the driver loop, about to sleep;
\* the sleep ends and the next cycle is started, so that a process that gets
\* no signal ends cycles again and again.
C12_DriverSurvivesErrors ==
    /\ [](outcome = "raised" => pc = "sleep")
    /\ ((outcome = "raised") ~> (pc = "check" \/ pc = "exited"))
    /\ []<>(pc = "sleep" \/ pc = "exited")

\* an exception after a location has been classified and its entry written
C12_Witness ==
    /\ pc = "sleep"
    /\ outcome = "raised"
    /\ events # <<>>
    /\ state # prior_state

\* --------------------------------------------------------------- C13
\* C13: a termination signal, between cycles, during the sleep or during a
\* cycle, ends the process with no tracking run left open, and nothing
\* happens after it: no cycle, no notification, no write of the state file.
C13_GracefulShutdown ==
    /\ [](pc = "exited" => wandb_run # "open")
    /\ [][pc = "exited" => UNCHANGED vars]_vars
    /\ [](pc # "exited" => ENABLED Signal)

\* a signal during a cycle that had already written an entry
C13_Witness ==
    /\ pc = "exited"
    /\ wandb_run = "finished"
    /\ live_data # <<>>
    /\ state # state_file

\* --------------------------------------------------------------- C14
\* the snapshot without its i-th entry
without(data, i) == SubSeq(data, 1, i - 1) \o SubSeq(data, i + 1, Len(data))

\* C14: a location whose current value is in no recognized date format
\* gets no state change, no event and no notification, and the cycle leaves
\* the state, the events and the notifications it would leave if that
\* location were not in the snapshot.
C14_ParseErrorsPerLocation ==
    CycleDone =>
        \A i \in DOMAIN live_data :
            live_data[i].earliest_date = UNRECOGNIZED =>
                LET id == live_data[i].id
                    rest == check_for_appointments(without(live_data, i),
                                                   prior_state, current_time)
                IN /\ dict_get(state, id) = dict_get(prior_state, id)
                   /\ events_for(id) = <<>>
                   /\ notified_for(id) = <<>>
                   /\ state = rest.state
                   /\ events = rest.events
                   /\ notified = rest.notified

\* a malformed first entry with a lapsed prior date, followed by a location
\* that is notified
C14_Witness ==
    /\ CycleDone
    /\ Len(live_data) = 2
    /\ live_data[1].earliest_date = UNRECOGNIZED
    /\ live_data[1].id \in DOMAIN prior_state
    /\ parse_date(prior_state[live_data[1].id]) # None
    /\ parse_date(prior_state[live_data[1].id])[1] < current_time
    /\ notified_for(live_data[2].id) # <<>>
    /\ state # prior_state

\* --------------------------------------------------------------- C15
\* C15: when the delivery of a notification fails, the cycle still returns,
\* the state, the events and the notifications built are those of the cycle
\* whose deliveries all succeed, and that state is what the state file holds.
C15_DeliveryFailureDoesNotBlock ==
    undelivered # <<>> =>
        LET sent == check_for_appointments(live_data, prior_state,
                                           current_time)
        IN /\ pc = "sleep"
           /\ outcome = "returned"
           /\ state = sent.state
           /\ events = sent.events
           /\ notified = sent.notified
           /\ state_file = state

\* the delivery for the first location fails, the second is still notified
C15_Witness ==
    /\ pc = "sleep"
    /\ Len(undelivered) = 1
    /\ Len(notified) = 2
    /\ undelivered[1] = notified[1]
    /\ state_file # prior_state

\* --------------------------------------------------------------- C16
catalog_ids == {all_locations_data[i].id : i \in DOMAIN all_locations_data}

\* C16: called on a non-empty map, refresh_locations_map_if_needed maps
\* every id of the catalog that was not mapped to a name the catalog gives
\* it, keeps every mapping it was given, adds no other id, and returns true
\* exactly when it added an id; called on an empty map it returns false and
\* leaves the map empty.
C16_RefreshMerges ==
    pc = "mapped" =>
        IF DOMAIN loaded_map = {}
        THEN refreshed = FALSE /\ locations_map = loaded_map
        ELSE /\ DOMAIN locations_map = (DOMAIN loaded_map) \cup catalog_ids
             /\ \A id \in DOMAIN loaded_map :
                    locations_map[id] = loaded_map[id]
             /\ \A id \in catalog_ids \ DOMAIN loaded_map :
                    \E i \in DOMAIN all_locations_data :
                        /\ all_locations_data[i].id = id
                        /\ all_locations_data[i].service_center
                               = locations_map[id]
             /\ refreshed = (DOMAIN locations_map # DOMAIN loaded_map)

\* a catalog with an id already mapped under another name and a new id
C16_Witness ==
    /\ pc = "mapped"
    /\ refreshed = TRUE
    /\ \E i, j \in DOMAIN all_locations_data :
          /\ all_locations_data[i].id \in DOMAIN loaded_map
          /\ all_locations_data[i].service_center
                 # loaded_map[all_locations_data[i].id]
          /\ all_locations_data[j].id \notin DOMAIN loaded_map

\* --------------------------------------------------------------- C17
\* the classifications that write state[id]
StateChanging ==
    {"expired_replaced", "new_availability", "first_appointment",
     "earlier_appointment"}

\* the cycle that just returned classified `id` as state-changing
state_changed(id) ==
    \E k \in DOMAIN events : /\ events[k].location_id = id
                             /\ events[k].event_type \in StateChanging

\* the string gives a time of day: it ends in an AM/PM marker, which
\* strptime's %p reads in either case
has_time_of_day(date_str) == date_str.form = "datetime"

\* C17: for every state-changing classification the stored value and the
\* message give a time of day exactly when the current string has an AM/PM
\* marker.
C17_TimeOfDayPreserved ==
    CycleDone =>
        \A i \in DOMAIN live_data :
            LET id == live_data[i].id
                cur == live_data[i].earliest_date
            IN state_changed(id) =>
                   /\ id \in DOMAIN state
                   /\ has_time_of_day(state[id]) = has_time_of_day(cur)
                   /\ \A k \in DOMAIN notified_for(id) :
                          notified_for(id)[k].with_time = has_time_of_day(cur)

\* --------------------------------------------------------------- C18
\* the entry of `id` alone, when it has one
only(st, id) == [x \in (DOMAIN st) \cap {id} |-> st[x]]

snapshot_ids == {live_data[i].id : i \in DOMAIN live_data}

\* C18: what a cycle does to a location -- its entry, its events, its
\* notifications -- is what the cycle does on that location alone, given
\* its own prior entry and the check time, whatever the other locations of
\* the snapshot and their order; the entry of an id that is not in the
\* snapshot is left as it was.
C18_LocationsIndependent ==
    CycleDone =>
        /\ \A i \in DOMAIN live_data :
              LET id == live_data[i].id
                  alone == check_for_appointments(<<live_data[i]>>,
                               only(prior_state, id), current_time)
              IN /\ dict_get(state, id) = dict_get(alone.state, id)
                 /\ events_for(id) = alone.events
                 /\ notified_for(id) = alone.notified
        /\ \A id \in LocationIds \ snapshot_ids :
              dict_get(state, id) = dict_get(prior_state, id)

\* two locations notified in one cycle, each with a prior entry
C18_Witness ==
    /\ CycleDone
    /\ Len(live_data) = 2
    /\ Len(notified) = 2
    /\ DOMAIN prior_state = LocationIds
    /\ events[1].event_type # events[2].event_type

\* --------------------------------------------------------------- C19
\* C19: after a cycle that returns on a non-empty snapshot, every location
\* of the snapshot whose current value parses to a date has an entry that
\* parses to that date.
C19_StateTracksLatest ==
    CycleDone =>
        \A i \in DOMAIN live_data :
            LET id == live_data[i].id
                cur == live_data[i].earliest_date
            IN parse_date(cur) # None =>
                   /\ id \in DOMAIN state
                   /\ parse_date(state[id]) = parse_date(cur)

\* --------------------------------------------------------------- C20
\* state[id] was written by the cycle that just ran: a state-changing
\* event was logged for it or its entry differs from the prior one
written(id) ==
    \/ dict_get(state, id) # dict_get(prior_state, id)
    \/ \E k \in DOMAIN events :
          /\ events[k].location_id = id
          /\ events[k].event_type \in StateChanging \cup {"initial_population"}

\* C20: in every cycle a location is sent a notification exactly when
\* its entry is written, and at most one.
C20_NotificationIffWrite ==
    \A id \in LocationIds :
        /\ Len(notified_for(id)) <= 1
        /\ (notified_for(id) # <<>>) = written(id)

\* --------------------------------------------------------------- C21
\* C21: when a cycle is about to start, the state in memory is what the
\* state file holds, also after a cycle that fetched nothing or that an
\* exception ended after it had classified some locations.
C21_StateMatchesFileAtCycleStart ==
    pc = "check" => state = state_file

\* --------------------------------------------------------------- C22
\* the current values that are no date for another reason than the
\* location being unavailable
NoAppointmentStrings == {NO_APPOINTMENTS, NO_DATE_FOUND, UNRECOGNIZED}

\* C22: a location with a prior entry whose current value is a "no
\* appointment" sentinel or a string that does not parse keeps its entry as
\* it was and gets no event and no notification, also when the prior date
\* is already before the check time.
C22_NoAppointmentKeepsHistory ==
    CycleDone =>
        \A i \in DOMAIN live_data :
            LET id == live_data[i].id
            IN (/\ live_data[i].earliest_date \in NoAppointmentStrings
                /\ id \in DOMAIN prior_state) =>
                   /\ dict_get(state, id) = Some(prior_state[id])
                   /\ events_for(id) = <<>>
                   /\ notified_for(id) = <<>>

\* a string that does not parse for a location whose prior date has lapsed,
\* after a "No Date Found" for the other location, which has an entry too
C22_Witness ==
    /\ CycleDone
    /\ Len(live_data) = 2
    /\ live_data[2].earliest_date = UNRECOGNIZED
    /\ live_data[2].id \in DOMAIN prior_state
    /\ parse_date(prior_state[live_data[2].id]) # None
    /\ parse_date(prior_state[live_data[2].id])[1] < current_time
    /\ live_data[1].earliest_date = NO_DATE_FOUND
    /\ live_data[1].id \in DOMAIN prior_state

====
